---- MODULE Spec2Model ----
(***************************************************************************)
(* Model of cmd/xcode.go of codesigndoc: the `scan xcode` command          *)
(* (scanXcodeProject), the provisioning profile export loop                *)
(* (exportProvisioningProfiles) and the export file name derivation        *)
(* (provProfileExportFileName).                                            *)
(*                                                                         *)
(* Go strings are TLA+ strings; a character is a string of length one.     *)
(* Three specifications share the module:                                  *)
(*   Spec          one run of scanXcodeProject, one step per call it makes *)
(*   ExportSpec    one call of exportProvisioningProfiles, one step per    *)
(*                 loop iteration                                          *)
(*   FileNameSpec  provProfileExportFileName applied to one descriptor     *)
(***************************************************************************)
EXTENDS Integers, Sequences, FiniteSets, TLC

VARIABLES
    \* ---- scanXcodeProject ----
    pc,                         \* position in scanXcodeProject
    paramXcodeProjectFilePath,  \* --file flag
    paramXcodeScheme,           \* --scheme flag
    absExportOutputDirPath,     \* local of scanXcodeProject
    projectPath,                \* local; becomes xcodeCmd.ProjectFilePath
    schemes,                    \* local: result of ScanSchemes
    schemeToUse,                \* local; becomes xcodeCmd.Scheme
    codeSigningSettings,        \* local: 1st result of ScanCodeSigningSettings
    xcodebuildOutput,           \* local: 2nd result of ScanCodeSigningSettings
    err,                        \* local: 3rd result of ScanCodeSigningSettings
    logWriteErr,                \* local: result of WriteStringToFile
    fs,                         \* files of the export directory: <<path, content>>;
                                \* written by scanXcodeProject and by the cp commands
                                \* of exportProvisioningProfiles
    trace,                      \* the calls made so far, in order
    result,                     \* what scanXcodeProject returned
    \* ---- exportProvisioningProfiles ----
    epc,                        \* position in exportProvisioningProfiles
    provProfileFileInfos,       \* parameter
    exportTargetDirPath,        \* parameter
    idx,                        \* index of the range loop (1-based), next to visit
    cpLog,                      \* the cp commands run so far, in order
    exportResult,               \* what exportProvisioningProfiles returned
    \* ---- provProfileExportFileName ----
    fpc,                        \* position: before the call or after it
    fnInput,                    \* the descriptor given
    fnOutput                    \* the name returned

scanCallVars == <<pc, paramXcodeProjectFilePath, paramXcodeScheme, absExportOutputDirPath,
                  projectPath, schemes, schemeToUse, codeSigningSettings, xcodebuildOutput,
                  err, logWriteErr, trace, result>>
scanVars == <<scanCallVars, fs>>
exportVars == <<epc, provProfileFileInfos, exportTargetDirPath, idx, cpLog,
                exportResult>>
fileNameVars == <<fpc, fnInput, fnOutput>>
vars == <<scanVars, exportVars, fileNameVars>>

\* Go's nil error, and the value of a variable not assigned yet.
Nil == "<nil>"
Unset == "<unset>"

(***************************************************************************)
(* Bounds of the model.                                                    *)
(***************************************************************************)
\* longest generated profile display name (FileNameSpec)
MaxNameLen == 2
\* longest sequence of profile file infos given to exportProvisioningProfiles
MaxProfiles == 2

(***************************************************************************)
(* Strings.                                                                *)
(***************************************************************************)
\* strings.HasSuffix(s, suffix)
HasSuffix(s, suffix) ==
    /\ Len(s) >= Len(suffix)
    /\ SubSeq(s, Len(s) - Len(suffix) + 1, Len(s)) = suffix

\* The characters the class A-Za-z0-9_.- of the regular expression lists.
UpperAZ == {"A","B","C","D","E","F","G","H","I","J","K","L","M",
            "N","O","P","Q","R","S","T","U","V","W","X","Y","Z"}
LowerAZ == {"a","b","c","d","e","f","g","h","i","j","k","l","m",
            "n","o","p","q","r","s","t","u","v","w","x","y","z"}
Digits09 == {"0","1","2","3","4","5","6","7","8","9"}

\* Mutant: the class written without its last character, "[^A-Za-z0-9_.]".
replaceRexpMatchesNoDash(c) ==
    ~ (c \in UpperAZ \/ c \in LowerAZ \/ c \in Digits09 \/ c = "_" \/ c = ".")

\* Whether the one-character string c matches "[^A-Za-z0-9_.-]": the class is
\* negated, so a character matches when it is none of the listed ones.
replaceRexpMatches(c) ==
    ~ (c \in UpperAZ \/ c \in LowerAZ \/ c \in Digits09 \/ c = "_" \/ c = "." \/ c = "-")

\* replaceRexp.ReplaceAllString(src, repl): every match of the expression, left to
\* right, is replaced by repl; the expression matches exactly one character.
RECURSIVE ReplaceAllString(_, _)
ReplaceAllString(src, repl) ==
    IF src = "" THEN ""
    ELSE (IF replaceRexpMatches(Head(src)) THEN repl ELSE Head(src))
         \o ReplaceAllString(Tail(src), repl)

\* The extension chosen at lines 147-150.
exportExtension(path) ==
    IF HasSuffix(path, ".provisionprofile") THEN ".provisionprofile" ELSE ".mobileprovision"

\* Mutant: the name is built without the uuid.
provProfileExportFileNameWithoutUUID(provProfileFileInfo) ==
    LET safeTitle == ReplaceAllString(provProfileFileInfo.Name, "")
        extension == exportExtension(provProfileFileInfo.Path)
    IN  safeTitle \o extension

\* provProfileExportFileName: the descriptor is [UUID, Name, Path]. The expression
\* is a constant that compiles, so the err branch (return "") is never taken.
provProfileExportFileName(provProfileFileInfo) ==
    LET safeTitle == ReplaceAllString(provProfileFileInfo.Name, "")
        extension == exportExtension(provProfileFileInfo.Path)
    IN  provProfileFileInfo.UUID \o "." \o safeTitle \o extension

(***************************************************************************)
(* path/filepath (Unix): Join and the Clean it ends with.                  *)
(***************************************************************************)
\* The elements of a path between its separators ("a//b" gives a, "", b).
RECURSIVE SplitSlash(_)
SplitSlash(s) ==
    LET slashes == {i \in 1..Len(s) : SubSeq(s, i, i) = "/"}
    IN  IF slashes = {} THEN <<s>>
        ELSE LET first == CHOOSE i \in slashes : \A j \in slashes : i <= j
             IN  <<SubSeq(s, 1, first - 1)>> \o SplitSlash(SubSeq(s, first + 1, Len(s)))

\* Clean's pass over the elements: empty and "." elements are dropped, ".." removes
\* the element before it, or is dropped at the root, or is kept in a relative path.
RECURSIVE CleanElements(_, _, _)
CleanElements(elems, out, rooted) ==
    IF elems = <<>> THEN out
    ELSE LET e == Head(elems)
             rest == Tail(elems)
         IN  IF e = "" \/ e = "." THEN CleanElements(rest, out, rooted)
             ELSE IF e = ".."
                  THEN IF out # <<>> /\ out[Len(out)] # ".."
                       THEN CleanElements(rest, SubSeq(out, 1, Len(out) - 1), rooted)
                       ELSE IF rooted THEN CleanElements(rest, out, rooted)
                       ELSE CleanElements(rest, Append(out, e), rooted)
             ELSE CleanElements(rest, Append(out, e), rooted)

RECURSIVE JoinSlash(_)
JoinSlash(elems) ==
    IF elems = <<>> THEN ""
    ELSE IF Len(elems) = 1 THEN elems[1]
    ELSE elems[1] \o "/" \o JoinSlash(Tail(elems))

\* filepath.Clean(path)
filepathClean(path) ==
    IF path = "" THEN "."
    ELSE LET rooted == Head(path) = "/"
             body == JoinSlash(CleanElements(SplitSlash(path), <<>>, rooted))
         IN  IF rooted THEN "/" \o body
             ELSE IF body = "" THEN "." ELSE body

\* filepath.Join(dir, name): empty elements are ignored, the rest joined by the
\* separator and cleaned; "" when both are empty.
filepathJoin(dir, name) ==
    IF dir = "" /\ name = "" THEN ""
    ELSE IF dir = "" THEN filepathClean(name)
    ELSE IF name = "" THEN filepathClean(dir)
    ELSE filepathClean(dir \o "/" \o name)

(***************************************************************************)
(* Inputs.                                                                 *)
(***************************************************************************)
\* All strings of at most n characters of the alphabet.
RECURSIVE StringsUpTo(_, _)
StringsUpTo(alphabet, n) ==
    IF n = 0 THEN {""}
    ELSE LET shorter == StringsUpTo(alphabet, n - 1)
         IN  shorter \cup {s \o c : s \in shorter, c \in alphabet}

\* Characters of a display name: kept ones of each kind, and removed ones.
NameAlphabet == {"a", "Z", "7", "_", ".", "-", " ", "/", "(", "@"}

ProfileUUIDs == {"1111-AAAA", "1111-AAAA.x", "2222-BBBB"}

ProfileNames ==
    StringsUpTo(NameAlphabet, MaxNameLen) \cup {"Wildcard Profile", "Dev", "x.Dev", "iOS Team: (Acme)"}

ProfilePaths == {"/profiles/1111.mobileprovision",
                 "/profiles/2222.provisionprofile",
                 "/profiles/3333.provisionprofile.bak",
                 ".provisionprofile",
                 "provisionprofile",
                 ""}

ProvisioningProfileFileInfos ==
    [UUID : ProfileUUIDs, Name : ProfileNames, Path : ProfilePaths]

(***************************************************************************)
(* FileNameSpec: provProfileExportFileName applied to one descriptor.      *)
(***************************************************************************)
ScanCallIdle ==
    /\ pc = "idle"
    /\ paramXcodeProjectFilePath = "" /\ paramXcodeScheme = ""
    /\ absExportOutputDirPath = Unset /\ projectPath = Unset
    /\ schemes = <<>> /\ schemeToUse = Unset
    /\ codeSigningSettings = Unset /\ xcodebuildOutput = Unset
    /\ err = Unset /\ logWriteErr = Unset
    /\ trace = <<>> /\ result = Unset

ScanIdle == ScanCallIdle /\ fs = {}

ExportIdle ==
    /\ epc = "idle"
    /\ provProfileFileInfos = <<>> /\ exportTargetDirPath = ""
    /\ idx = 1 /\ cpLog = <<>> /\ exportResult = Unset

NoFileInfo == [UUID |-> "", Name |-> "", Path |-> ""]

FileNameIdle ==
    /\ fpc = "idle" /\ fnInput = NoFileInfo /\ fnOutput = Unset

FileNameInit ==
    /\ ScanIdle /\ ExportIdle
    /\ fpc = "call"
    /\ fnInput \in ProvisioningProfileFileInfos
    /\ fnOutput = Unset

CallProvProfileExportFileName ==
    /\ fpc = "call"
    /\ fnOutput' = provProfileExportFileName(fnInput)
    /\ fpc' = "returned"
    /\ UNCHANGED <<fnInput, scanVars, exportVars>>

FileNameNext == CallProvProfileExportFileName

FileNameSpec == FileNameInit /\ [][FileNameNext]_vars

(***************************************************************************)
(* ExportSpec: one call of exportProvisioningProfiles.                     *)
(***************************************************************************)
\* fmt.Sprintf / fmt.Errorf for formats whose only verb is %s; an error argument
\* is printed as its message.
RECURSIVE Sprintf(_, _)
Sprintf(format, args) ==
    LET verbs == {i \in 1..(Len(format) - 1) : SubSeq(format, i, i + 1) = "%s"}
    IN  IF verbs = {} \/ args = <<>> THEN format
        ELSE LET first == CHOOSE i \in verbs : \A j \in verbs : i <= j
             IN  SubSeq(format, 1, first - 1) \o Head(args)
                 \o Sprintf(SubSeq(format, first + 2, Len(format)), Tail(args))

\* The descriptors given: UUID, Name and Path are three strings the function does
\* not relate.  The uuids include one that holds the "." the file name is built
\* with; the paths include two files of one extension, and one that cp reads as an
\* option and not as a file.
ExportNames == {"Dev", "x.Dev"}
ExportPaths == {"/profiles/a.mobileprovision", "/profiles/b.mobileprovision",
                "/profiles/c.provisionprofile"}
ExportInfos ==
    [UUID : ProfileUUIDs, Name : ExportNames, Path : ExportPaths]
    \cup {[UUID |-> "2222-BBBB", Name |-> "Dev", Path |-> "--help"]}
ExportDirs == {"/Users/dev/codesigndoc_exports", "/Volumes/Build Disk/exports/"}

\* What cmdex.RunCommand("cp", from, to) can return: nil, or the command's error.
\* The exit status is all the code learns of the command.
CpOutcomes == {Nil, "exit status 1"}

SeqsUpTo(S, n) == UNION {[1..k -> S] : k \in 0..n}

\* lines 130-131: the destination of one descriptor
exportPthOf(aProvProfileFileInfo, dir) ==
    filepathJoin(dir, provProfileExportFileName(aProvProfileFileInfo))

\* Mutant: the destination is printed in both places.
copyFailedErrorDestinationTwice(aProvProfileFileInfo, exportPth, cpErr) ==
    Sprintf("Failed to copy Provisioning Profile (from: %s) (to: %s), error: %s",
            <<exportPth, exportPth, cpErr>>)

\* lines 133-134: the error returned for a failed copy
copyFailedError(aProvProfileFileInfo, exportPth, cpErr) ==
    Sprintf("Failed to copy Provisioning Profile (from: %s) (to: %s), error: %s",
            <<aProvProfileFileInfo.Path, exportPth, cpErr>>)

\* line 127: the range loop has visited every element
rangeExhausted(i, infos) == i > Len(infos)

(***************************************************************************)
(* The cp command and the files of the export directory.  An entry of fs   *)
(* is <<path, what it holds>>: the content of a source file, named by the  *)
(* source's path, or one of the values below.                              *)
(***************************************************************************)
Directory == "<directory>"
PartialCopy == "<incomplete copy>"
OlderExport == "<file of an earlier export>"

\* The arguments of cp are not preceded by "--": a Path that starts with "-", and
\* is not the lone "-", is read as options.  What the command then does depends
\* on the option and on the cp installed (GNU cp, BSD cp); the model does not
\* follow it: from then on fs is this one entry, which stands for any content
\* of the export directory.
NotFollowed == <<"<export directory>", "<not followed: cp was given options>">>

readAsOption(from) == Len(from) > 1 /\ Head(from) = "-"

\* The last element of a path: the name cp gives a file copied into a directory.
baseName(path) ==
    LET elems == SplitSlash(path) IN elems[Len(elems)]

\* Where cp from to writes: into to when to is a directory, else to itself.
cpTarget(files, from, to) ==
    IF <<to, Directory>> \in files THEN to \o "/" \o baseName(from) ELSE to

\* Sources and destinations with which cp cannot exit with status 0: a source that
\* is no file name or names a directory, a destination that is a directory under
\* the source's name, the source itself as destination.
\* The entry at path replaced by one holding content.
putFile(files, path, content) ==
    {f \in files : f[1] # path} \cup {<<path, content>>}

cpRefuses(files, from, to) ==
    \/ from = "" \/ HasSuffix(from, "/")
    \/ from \in {".", ".."} \/ HasSuffix(from, "/.") \/ HasSuffix(from, "/..")
    \/ <<from, Directory>> \in files
    \/ <<cpTarget(files, from, to), Directory>> \in files
    \/ from = cpTarget(files, from, to)

\* cp from to, exit status 0: the files of the export directory afterwards.  The
\* destination holds the source's content, whatever file it held before.  Empty
\* when the command cannot exit with status 0.
cpEffect(files, from, to) ==
    IF NotFollowed \in files \/ readAsOption(from) THEN {{NotFollowed}}
    ELSE IF cpRefuses(files, from, to) THEN {}
    ELSE {putFile(files, cpTarget(files, from, to), from)}

\* cp from to, exit status not 0: nothing was written, or the copy stopped midway
\* and left an incomplete file where it was writing, or the file was written and
\* cp failed after it.
cpFailureEffects(files, from, to) ==
    IF NotFollowed \in files \/ readAsOption(from) THEN {{NotFollowed}}
    ELSE IF cpRefuses(files, from, to) THEN {files}
    ELSE {files,
          putFile(files, cpTarget(files, from, to), PartialCopy),
          putFile(files, cpTarget(files, from, to), from)}

\* The export directory before the call: empty, or holding a file or a directory
\* under the name the first descriptor is exported to.
InitialExportFiles(infos, dir) ==
    IF infos = <<>> THEN {{}}
    ELSE {{},
          {<<exportPthOf(infos[1], dir), OlderExport>>},
          {<<exportPthOf(infos[1], dir), Directory>>}}

ExportInit ==
    /\ ScanCallIdle /\ FileNameIdle
    /\ epc = "loop"
    /\ provProfileFileInfos \in SeqsUpTo(ExportInfos, MaxProfiles)
    /\ exportTargetDirPath \in ExportDirs
    /\ fs \in InitialExportFiles(provProfileFileInfos, exportTargetDirPath)
    /\ idx = 1 /\ cpLog = <<>> /\ exportResult = Unset

\* lines 127-136: one iteration of the loop: the cp command is run for the
\* descriptor; a failure returns the error at once, a success moves on.
ExportLoopBody ==
    /\ epc = "loop"
    /\ ~ rangeExhausted(idx, provProfileFileInfos)
    /\ LET aProvProfileFileInfo == provProfileFileInfos[idx]
           exportPth == exportPthOf(aProvProfileFileInfo, exportTargetDirPath)
       IN  \E cpErr \in CpOutcomes :
             /\ cpLog' = Append(cpLog, [from |-> aProvProfileFileInfo.Path,
                                        to |-> exportPth, err |-> cpErr])
             /\ IF cpErr # Nil
                THEN /\ fs' \in cpFailureEffects(fs, aProvProfileFileInfo.Path, exportPth)
                     /\ exportResult' = copyFailedError(aProvProfileFileInfo, exportPth, cpErr)
                     /\ epc' = "returned"
                     /\ UNCHANGED idx
                ELSE /\ fs' \in cpEffect(fs, aProvProfileFileInfo.Path, exportPth)
                     /\ idx' = idx + 1
                     /\ UNCHANGED <<epc, exportResult>>
    /\ UNCHANGED <<provProfileFileInfos, exportTargetDirPath, scanCallVars, fileNameVars>>

\* line 137: the loop is over, return nil
ExportLoopEnd ==
    /\ epc = "loop"
    /\ rangeExhausted(idx, provProfileFileInfos)
    /\ exportResult' = Nil
    /\ epc' = "returned"
    /\ UNCHANGED <<provProfileFileInfos, exportTargetDirPath, idx, cpLog,
                   scanVars, fileNameVars>>

ExportNext == ExportLoopBody \/ ExportLoopEnd

ExportSpec == ExportInit /\ [][ExportNext]_vars

(***************************************************************************)
(* Spec: one run of scanXcodeProject.  Every call the function makes to    *)
(* code outside cmd/xcode.go is one step; what the call returns is chosen  *)
(* among the results its signature allows.                                 *)
(***************************************************************************)
\* One entry of trace: the function called, its arguments, the error it returned.
Call(name, args, ret) == [call |-> name, args |-> args, ret |-> ret]

\* The directory initExportOutputDir returns when it succeeds.
ExportOutputDir == "/Users/dev/codesigndoc_exports"
InitExportOutputDirErrors == {Nil, "mkdir: permission denied"}

\* Values of the --file and --scheme flags ("" when not given).
ProjectFilePathParams == {"", "/proj/App.xcworkspace"}
SchemeParams == {"", "App"}

\* goinp.AskForPath: a path, or an error.
AskForPathResults == {[path |-> "/proj/App.xcodeproj", err |-> Nil],
                      [path |-> "", err |-> "EOF"]}

\* xcodeCmd.ScanSchemes: the schemes, or an error.
ScanSchemesResults == {[schemes |-> <<"App">>, err |-> Nil],
                       [schemes |-> <<"App", "AppTests">>, err |-> Nil],
                       [schemes |-> <<>>, err |-> "xcodebuild -list failed"]}

\* goinp.SelectFromStrings: one of the strings offered, or an error.
SelectFromStringsResults(offered) ==
    {[selected |-> offered[i], err |-> Nil] : i \in DOMAIN offered}
    \cup {[selected |-> "", err |-> "invalid selection"]}

\* The build transcripts, and the code signing settings as the export is given them.
Transcripts == {"=== BUILD TARGET App ===\nCodeSign App.app\n** ARCHIVE SUCCEEDED **",
                "=== BUILD TARGET App ===\nerror: no signing identity\n** ARCHIVE FAILED **"}
NoSettings == "CodeSigningSettings{}"
FullSettings == "CodeSigningSettings{Identities:[iPhone Developer: Dev] ProvProfiles:[1111-AAAA]}"
PartialSettings == "CodeSigningSettings{Identities:[iPhone Developer: Dev] ProvProfiles:[]}"

\* xcodeCmd.ScanCodeSigningSettings: (settings, transcript, error). A build that
\* cannot be launched leaves no transcript; a build that ran leaves one, whether it
\* succeeded, failed, or its settings could not be extracted.
ScanCodeSigningSettingsResults ==
    [settings : {FullSettings}, output : Transcripts, err : {Nil}]
    \cup [settings : {NoSettings, PartialSettings}, output : Transcripts,
          err : {"BuildFailed", "ExtractionError"}]
    \cup [settings : {NoSettings}, output : {""}, err : {"ProcessLaunchError"}]

\* fileutil.WriteStringToFile: nil, or the error of the write.
WriteStringToFileErrors == {Nil, "open: permission denied"}

\* exportCodeSigningFiles: nil, or its error.
ExportCodeSigningFilesErrors == {Nil, "Failed to export code signing files"}

\* A file written in full replaces what the path held.
writeFileEffect(files, path, content) ==
    {f \in files : f[1] # path} \cup {<<path, content>>}

\* printFinishedWithError (another file of package cmd): prints the message and
\* returns it as an error, never nil.
printFinishedWithError(toolName, format, arg) ==
    Sprintf(format, <<arg>>)

\* lines 47-49
printXcodeScanFinishedWithError(format, arg) ==
    printFinishedWithError("Xcode", format, arg)

\* line 102
xcodebuildOutputFilePathIn(dir) == filepathJoin(dir, "xcodebuild-output.log")

\* Mutant: the error tested is the log write's, not the build's.
scanFailedShadowed(scanErr, writeErr) == writeErr # Nil

\* line 116: if err != nil. logWriteErr is the other error in scope there.
scanFailed(scanErr, writeErr) == scanErr # Nil

Init ==
    /\ ExportIdle /\ FileNameIdle
    /\ pc = "initExportOutputDir"
    /\ paramXcodeProjectFilePath \in ProjectFilePathParams
    /\ paramXcodeScheme \in SchemeParams
    /\ absExportOutputDirPath = Unset /\ projectPath = Unset
    /\ schemes = <<>> /\ schemeToUse = Unset
    /\ codeSigningSettings = Unset /\ xcodebuildOutput = Unset
    /\ err = Unset /\ logWriteErr = Unset
    /\ fs \in {{}, {<<xcodebuildOutputFilePathIn(ExportOutputDir), "output of an earlier run">>}}
    /\ trace = <<>> /\ result = Unset

\* lines 52-55
InitExportOutputDir ==
    /\ pc = "initExportOutputDir"
    /\ \E e \in InitExportOutputDirErrors :
         /\ trace' = Append(trace, Call("initExportOutputDir", <<>>, e))
         /\ IF e # Nil
            THEN /\ result' = printXcodeScanFinishedWithError(
                                  "Failed to prepare Export directory: %s", e)
                 /\ pc' = "done"
                 /\ UNCHANGED absExportOutputDirPath
            ELSE /\ absExportOutputDirPath' = ExportOutputDir
                 /\ pc' = "projectPath"
                 /\ UNCHANGED result
    /\ UNCHANGED <<paramXcodeProjectFilePath, paramXcodeScheme, projectPath, schemes,
                   schemeToUse, codeSigningSettings, xcodebuildOutput, err, logWriteErr,
                   fs, exportVars, fileNameVars>>

\* lines 57-58 and 71-74, --file given: the path is the flag's
UseProjectFilePathParam ==
    /\ pc = "projectPath"
    /\ paramXcodeProjectFilePath # ""
    /\ projectPath' = paramXcodeProjectFilePath
    /\ pc' = "scheme"
    /\ UNCHANGED <<paramXcodeProjectFilePath, paramXcodeScheme, absExportOutputDirPath,
                   schemes, schemeToUse, codeSigningSettings, xcodebuildOutput, err,
                   logWriteErr, fs, trace, result, exportVars, fileNameVars>>

\* lines 58-70, --file not given: the user is asked for the path
AskForPath ==
    /\ pc = "projectPath"
    /\ paramXcodeProjectFilePath = ""
    /\ \E r \in AskForPathResults :
         /\ trace' = Append(trace, Call("goinp.AskForPath", <<>>, r.err))
         /\ IF r.err # Nil
            THEN /\ result' = printXcodeScanFinishedWithError("Failed to read input: %s", r.err)
                 /\ pc' = "done"
                 /\ UNCHANGED projectPath
            ELSE /\ projectPath' = r.path
                 /\ pc' = "scheme"
                 /\ UNCHANGED result
    /\ UNCHANGED <<paramXcodeProjectFilePath, paramXcodeScheme, absExportOutputDirPath,
                   schemes, schemeToUse, codeSigningSettings, xcodebuildOutput, err,
                   logWriteErr, fs, exportVars, fileNameVars>>

\* lines 76-77 and 95, --scheme given: the scheme is the flag's
UseSchemeParam ==
    /\ pc = "scheme"
    /\ paramXcodeScheme # ""
    /\ schemeToUse' = paramXcodeScheme
    /\ pc' = "build"
    /\ UNCHANGED <<paramXcodeProjectFilePath, paramXcodeScheme, absExportOutputDirPath,
                   projectPath, schemes, codeSigningSettings, xcodebuildOutput, err,
                   logWriteErr, fs, trace, result, exportVars, fileNameVars>>

\* lines 77-85, --scheme not given: the project's schemes are scanned
ScanSchemes ==
    /\ pc = "scheme"
    /\ paramXcodeScheme = ""
    /\ \E r \in ScanSchemesResults :
         /\ trace' = Append(trace, Call("xcodeCmd.ScanSchemes", <<projectPath>>, r.err))
         /\ IF r.err # Nil
            THEN /\ result' = printXcodeScanFinishedWithError("Failed to scan Schemes: %s", r.err)
                 /\ pc' = "done"
                 /\ UNCHANGED schemes
            ELSE /\ schemes' = r.schemes
                 /\ pc' = "selectScheme"
                 /\ UNCHANGED result
    /\ UNCHANGED <<paramXcodeProjectFilePath, paramXcodeScheme, absExportOutputDirPath,
                   projectPath, schemeToUse, codeSigningSettings, xcodebuildOutput, err,
                   logWriteErr, fs, exportVars, fileNameVars>>

\* lines 87-95: the user selects one of the schemes
SelectFromStrings ==
    /\ pc = "selectScheme"
    /\ \E r \in SelectFromStringsResults(schemes) :
         /\ trace' = Append(trace, Call("goinp.SelectFromStrings", schemes, r.err))
         /\ IF r.err # Nil
            THEN /\ result' = printXcodeScanFinishedWithError("Failed to select Scheme: %s", r.err)
                 /\ pc' = "done"
                 /\ UNCHANGED schemeToUse
            ELSE /\ schemeToUse' = r.selected
                 /\ pc' = "build"
                 /\ UNCHANGED result
    /\ UNCHANGED <<paramXcodeProjectFilePath, paramXcodeScheme, absExportOutputDirPath,
                   projectPath, schemes, codeSigningSettings, xcodebuildOutput, err,
                   logWriteErr, fs, exportVars, fileNameVars>>

\* line 100: the archive build; its three results are kept, whatever the error
ScanCodeSigningSettings ==
    /\ pc = "build"
    /\ \E r \in ScanCodeSigningSettingsResults :
         /\ trace' = Append(trace, Call("xcodeCmd.ScanCodeSigningSettings",
                                        <<projectPath, schemeToUse>>, r.err))
         /\ codeSigningSettings' = r.settings
         /\ xcodebuildOutput' = r.output
         /\ err' = r.err
    /\ pc' = "saveLog"
    /\ UNCHANGED <<paramXcodeProjectFilePath, paramXcodeScheme, absExportOutputDirPath,
                   projectPath, schemes, schemeToUse, logWriteErr, fs, result,
                   exportVars, fileNameVars>>

\* Mutant: the error is looked at first, and a failed build's transcript not written.
SaveXcodebuildOutputOnlyOnSuccess ==
    /\ pc = "saveLog"
    /\ LET xcodebuildOutputFilePath == xcodebuildOutputFilePathIn(absExportOutputDirPath)
       IN  IF err # Nil
           THEN UNCHANGED <<trace, logWriteErr, fs>>
           ELSE \E e \in WriteStringToFileErrors :
                  /\ trace' = Append(trace, Call("fileutil.WriteStringToFile",
                                       <<xcodebuildOutputFilePath, xcodebuildOutput>>, e))
                  /\ logWriteErr' = e
                  /\ fs' = IF e = Nil
                           THEN writeFileEffect(fs, xcodebuildOutputFilePath, xcodebuildOutput)
                           ELSE fs
    /\ pc' = "checkErr"
    /\ UNCHANGED <<paramXcodeProjectFilePath, paramXcodeScheme, absExportOutputDirPath,
                   projectPath, schemes, schemeToUse, codeSigningSettings,
                   xcodebuildOutput, err, result, exportVars, fileNameVars>>

\* Mutant: an empty transcript is not written.
SaveXcodebuildOutputUnlessEmpty ==
    /\ pc = "saveLog"
    /\ LET xcodebuildOutputFilePath == xcodebuildOutputFilePathIn(absExportOutputDirPath)
       IN  IF xcodebuildOutput = ""
           THEN UNCHANGED <<trace, logWriteErr, fs>>
           ELSE \E e \in WriteStringToFileErrors :
                  /\ trace' = Append(trace, Call("fileutil.WriteStringToFile",
                                       <<xcodebuildOutputFilePath, xcodebuildOutput>>, e))
                  /\ logWriteErr' = e
                  /\ fs' = IF e = Nil
                           THEN writeFileEffect(fs, xcodebuildOutputFilePath, xcodebuildOutput)
                           ELSE fs
    /\ pc' = "checkErr"
    /\ UNCHANGED <<paramXcodeProjectFilePath, paramXcodeScheme, absExportOutputDirPath,
                   projectPath, schemes, schemeToUse, codeSigningSettings,
                   xcodebuildOutput, err, result, exportVars, fileNameVars>>

\* lines 102-115: the transcript is written to the log file; a failed write is
\* logged and nothing more
SaveXcodebuildOutput ==
    /\ pc = "saveLog"
    /\ LET xcodebuildOutputFilePath == xcodebuildOutputFilePathIn(absExportOutputDirPath)
       IN  \E e \in WriteStringToFileErrors :
             /\ trace' = Append(trace, Call("fileutil.WriteStringToFile",
                                            <<xcodebuildOutputFilePath, xcodebuildOutput>>, e))
             /\ logWriteErr' = e
             /\ fs' = IF e = Nil
                      THEN writeFileEffect(fs, xcodebuildOutputFilePath, xcodebuildOutput)
                      ELSE fs
    /\ pc' = "checkErr"
    /\ UNCHANGED <<paramXcodeProjectFilePath, paramXcodeScheme, absExportOutputDirPath,
                   projectPath, schemes, schemeToUse, codeSigningSettings,
                   xcodebuildOutput, err, result, exportVars, fileNameVars>>

\* Mutant: a failed build is run once more before the error is returned.
ReturnScanErrorRetryingBuild ==
    /\ pc = "checkErr"
    /\ scanFailed(err, logWriteErr)
    /\ IF Cardinality({i \in DOMAIN trace :
                         trace[i].call = "xcodeCmd.ScanCodeSigningSettings"}) < 2
       THEN /\ pc' = "build"
            /\ UNCHANGED result
       ELSE /\ result' = printXcodeScanFinishedWithError(
                             "Failed to detect code signing settings: %s", err)
            /\ pc' = "done"
    /\ UNCHANGED <<paramXcodeProjectFilePath, paramXcodeScheme, absExportOutputDirPath,
                   projectPath, schemes, schemeToUse, codeSigningSettings,
                   xcodebuildOutput, err, logWriteErr, fs, trace, exportVars, fileNameVars>>

\* lines 116-118: the build or the extraction failed
ReturnScanError ==
    /\ pc = "checkErr"
    /\ scanFailed(err, logWriteErr)
    /\ result' = printXcodeScanFinishedWithError(
                     "Failed to detect code signing settings: %s", err)
    /\ pc' = "done"
    /\ UNCHANGED <<paramXcodeProjectFilePath, paramXcodeScheme, absExportOutputDirPath,
                   projectPath, schemes, schemeToUse, codeSigningSettings,
                   xcodebuildOutput, err, logWriteErr, fs, trace, exportVars, fileNameVars>>

\* lines 119-121: the settings are exported, and the export's result returned
ExportCodeSigningFiles ==
    /\ pc = "checkErr"
    /\ ~ scanFailed(err, logWriteErr)
    /\ \E e \in ExportCodeSigningFilesErrors :
         /\ trace' = Append(trace, Call("exportCodeSigningFiles",
                              <<"Xcode", absExportOutputDirPath, codeSigningSettings>>, e))
         /\ result' = e
    /\ pc' = "done"
    /\ UNCHANGED <<paramXcodeProjectFilePath, paramXcodeScheme, absExportOutputDirPath,
                   projectPath, schemes, schemeToUse, codeSigningSettings,
                   xcodebuildOutput, err, logWriteErr, fs, exportVars, fileNameVars>>

Next ==
    \/ InitExportOutputDir
    \/ UseProjectFilePathParam
    \/ AskForPath
    \/ UseSchemeParam
    \/ ScanSchemes
    \/ SelectFromStrings
    \/ ScanCodeSigningSettings
    \/ SaveXcodebuildOutput
    \/ ReturnScanError
    \/ ExportCodeSigningFiles

Spec == Init /\ [][Next]_vars

(***************************************************************************)
(* Properties of scanXcodeProject (Spec).                                  *)
(***************************************************************************)
\* The positions in trace of the calls of one function.
CallsOf(name) == {i \in DOMAIN trace : trace[i].call = name}

\* The transcript file of the export directory.
LogFilePath == "/Users/dev/codesigndoc_exports/xcodebuild-output.log"

\* The run is over and the build had returned an error.
ReturnedAfterFailedBuild == pc = "done" /\ err # Unset /\ err # Nil

\* C1: once ScanCodeSigningSettings has returned, whatever it returned, the call
\* that follows it is the write of the returned transcript to xcodebuild-output.log
\* in the export directory: the write has been attempted when the error is looked
\* at (line 116), and it comes before every call of exportCodeSigningFiles.
C1_TranscriptWriteFollowsBuild ==
    /\ \A i \in CallsOf("xcodeCmd.ScanCodeSigningSettings") :
         IF i = Len(trace)
         THEN pc = "saveLog"
         ELSE /\ trace[i + 1].call = "fileutil.WriteStringToFile"
              /\ trace[i + 1].args = <<LogFilePath, xcodebuildOutput>>
    /\ pc \in {"checkErr", "done"} /\ err # Unset
         => CallsOf("fileutil.WriteStringToFile") # {}
    /\ \A e \in CallsOf("exportCodeSigningFiles") :
         \E w \in CallsOf("fileutil.WriteStringToFile") : w < e

\* C1's case: a build that failed, its transcript written, the error returned.
C1_Witness ==
    /\ ReturnedAfterFailedBuild
    /\ err = "BuildFailed"
    /\ \E w \in CallsOf("fileutil.WriteStringToFile") :
         trace[w].args = <<LogFilePath, xcodebuildOutput>> /\ xcodebuildOutput # ""
    /\ result # Nil

\* C2 as stated: when the build cannot be launched (a launch error and no
\* transcript), the error is returned, no transcript file has been written to the
\* export directory and no export was attempted.
C2_NoTranscriptFileOnLaunchError ==
    (pc = "done" /\ err = "ProcessLaunchError" /\ xcodebuildOutput = "")
    => /\ result # Nil
       /\ CallsOf("exportCodeSigningFiles") = {}
       /\ \A w \in CallsOf("fileutil.WriteStringToFile") : trace[w].ret # Nil

\* C2 amended: when the build cannot be launched, the error is returned and no
\* export was attempted, but the write of the (empty) transcript to
\* xcodebuild-output.log was attempted once before the return; when that write
\* succeeded the export directory holds the file, empty.
C2_LaunchErrorStillWritesTranscript ==
    (pc = "done" /\ err = "ProcessLaunchError" /\ xcodebuildOutput = "")
    => /\ result # Nil /\ result # Unset
       /\ CallsOf("exportCodeSigningFiles") = {}
       /\ Cardinality(CallsOf("fileutil.WriteStringToFile")) = 1
       /\ \A w \in CallsOf("fileutil.WriteStringToFile") :
            /\ trace[w].args = <<LogFilePath, "">>
            /\ trace[w].ret = Nil => <<LogFilePath, "">> \in fs

\* C2's case: the launch failed, and the empty transcript file was written.
C2_Witness ==
    /\ pc = "done" /\ err = "ProcessLaunchError" /\ xcodebuildOutput = ""
    /\ logWriteErr = Nil
    /\ <<LogFilePath, "">> \in fs

\* C3: whenever ScanCodeSigningSettings returned an error, exportCodeSigningFiles
\* is not called in the run, so the settings returned with the error are never
\* exported, and the run ends with an error returned to the caller.
C3_FailedScanNeverExports ==
    /\ (err # Unset /\ err # Nil) => CallsOf("exportCodeSigningFiles") = {}
    /\ \A e \in CallsOf("exportCodeSigningFiles") : trace[e].args[3] = FullSettings
    /\ ReturnedAfterFailedBuild => (result # Nil /\ result # Unset)

\* C3's case: the extraction failed and returned partly filled settings.
C3_Witness ==
    /\ ReturnedAfterFailedBuild
    /\ err = "ExtractionError"
    /\ codeSigningSettings = PartialSettings

\* C8: after every run that returns no error, the export directory holds
\* xcodebuild-output.log with the build output of that run.
C8_SuccessfulRunLeavesTranscript ==
    (pc = "done" /\ result = Nil) => <<LogFilePath, xcodebuildOutput>> \in fs

\* The calls that come before the build.
PreparationCalls == {"initExportOutputDir", "goinp.AskForPath", "xcodeCmd.ScanSchemes",
                     "goinp.SelectFromStrings"}

\* C10: the archive build is started at most once in a run; it is started only
\* after initExportOutputDir succeeded and with a scheme obtained; and a failure of
\* initExportOutputDir, of the path prompt, of ScanSchemes or of the scheme
\* selection ends the run with an error, no build started and no transcript written.
C10_BuildAtMostOnceAfterPreparation ==
    /\ Cardinality(CallsOf("xcodeCmd.ScanCodeSigningSettings")) <= 1
    /\ \A b \in CallsOf("xcodeCmd.ScanCodeSigningSettings") :
         /\ \E i \in CallsOf("initExportOutputDir") : i < b /\ trace[i].ret = Nil
         /\ trace[b].args[1] \in {"/proj/App.xcworkspace", "/proj/App.xcodeproj"}
         /\ trace[b].args[2] \in {"App", "AppTests"}
         /\ \A i \in 1..(b - 1) : trace[i].ret = Nil
    /\ \A i \in DOMAIN trace :
         (trace[i].call \in PreparationCalls /\ trace[i].ret # Nil)
         => /\ i = Len(trace)
            /\ pc = "done"
            /\ result # Nil /\ result # Unset
            /\ CallsOf("xcodeCmd.ScanCodeSigningSettings") = {}
            /\ CallsOf("fileutil.WriteStringToFile") = {}

\* C10's case: the scheme selection failed after the schemes were scanned.
C10_Witness ==
    /\ pc = "done"
    /\ \E i \in CallsOf("goinp.SelectFromStrings") : trace[i].ret # Nil
    /\ CallsOf("xcodeCmd.ScanSchemes") # {}

(***************************************************************************)
(* Properties of provProfileExportFileName (FileNameSpec).                 *)
(***************************************************************************)
\* The characters a sanitized name may hold.
SafeNameChars == UpperAZ \cup LowerAZ \cup Digits09 \cup {"_", ".", "-"}

\* The characters of s that a sanitized name may hold, in their order.
RECURSIVE KeepSafeChars(_)
KeepSafeChars(s) ==
    IF s = "" THEN ""
    ELSE LET last == SubSeq(s, Len(s), Len(s))
         IN  KeepSafeChars(SubSeq(s, 1, Len(s) - 1))
             \o (IF last \in SafeNameChars THEN last ELSE "")

\* The path is some prefix followed by ".provisionprofile".
EndsWithProvisionProfile(path) ==
    \E k \in 0..Len(path) : SubSeq(path, 1, k) \o ".provisionprofile" = path

\* C4: for every descriptor the name returned is uuid, ".", the display name with
\* every character outside [A-Za-z0-9_.-] removed and the others kept in order, and
\* the extension: ".provisionprofile" when the source path ends with it,
\* ".mobileprovision" otherwise.  1111-AAAA, "Wildcard Profile" gives
\* 1111-AAAA.WildcardProfile.mobileprovision.
C4_ExportFileNameShape ==
    fpc = "returned" =>
      LET sanitizedName == KeepSafeChars(fnInput.Name)
          extension == IF EndsWithProvisionProfile(fnInput.Path)
                       THEN ".provisionprofile" ELSE ".mobileprovision"
      IN  /\ fnOutput = fnInput.UUID \o "." \o sanitizedName \o extension
          /\ (fnInput.UUID = "1111-AAAA" /\ fnInput.Name = "Wildcard Profile"
                /\ fnInput.Path = "/profiles/1111.mobileprovision")
             => fnOutput = "1111-AAAA.WildcardProfile.mobileprovision"

\* C4's case: a name with kept and removed characters, a .provisionprofile source.
C4_Witness ==
    /\ fpc = "returned"
    /\ fnInput = [UUID |-> "2222-BBBB", Name |-> "iOS Team: (Acme)",
                  Path |-> "/profiles/2222.provisionprofile"]
    /\ fnOutput = "2222-BBBB.iOSTeamAcme.provisionprofile"

(***************************************************************************)
(* Properties of exportProvisioningProfiles (ExportSpec).                  *)
(***************************************************************************)
\* The positions of cpLog whose copy failed.
FailedCopies == {i \in DOMAIN cpLog : cpLog[i].err # Nil}

RECURSIVE HasNoDot(_)
HasNoDot(s) == s = "" \/ (Head(s) # "." /\ HasNoDot(Tail(s)))

C6_FailedCopyDoesNotAbort ==
    epc = "returned" =>
      \A i \in FailedCopies :
        \A j \in (i + 1)..Len(provProfileFileInfos) : j \in DOMAIN cpLog

\* C7: after a failed copy the call returns an error, never nil, and the error
\* names the source path and the destination path of the descriptor whose copy
\* failed, as the cp command was given them.
C7_CopyErrorNamesFailedFile ==
    /\ (epc = "returned" /\ exportResult = Nil) => FailedCopies = {}
    /\ (epc = "returned" /\ FailedCopies # {})
       => LET k == Len(cpLog)
          IN  /\ FailedCopies = {k}
              /\ cpLog[k].from = provProfileFileInfos[k].Path
              /\ exportResult # Nil
              /\ exportResult = "Failed to copy Provisioning Profile (from: "
                                  \o provProfileFileInfos[k].Path \o ") (to: "
                                  \o cpLog[k].to \o "), error: " \o cpLog[k].err

\* C7's case: the second copy failed, the first had another source and destination.
C7_Witness ==
    /\ epc = "returned"
    /\ Len(cpLog) = 2 /\ FailedCopies = {2}
    /\ cpLog[1].from # cpLog[2].from /\ cpLog[1].to # cpLog[2].to

\* The export directory as Join leaves it.
CleanedExportDir ==
    IF exportTargetDirPath = "/Volumes/Build Disk/exports/"
    THEN "/Volumes/Build Disk/exports"
    ELSE exportTargetDirPath

NilMeansEveryCpRanOnce ==
    (epc = "returned" /\ exportResult = Nil)
    => /\ Len(cpLog) = Len(provProfileFileInfos)
       /\ \A i \in DOMAIN provProfileFileInfos :
            /\ cpLog[i].err = Nil
            /\ cpLog[i].from = provProfileFileInfos[i].Path
            /\ cpLog[i].to = CleanedExportDir \o "/"
                               \o provProfileExportFileName(provProfileFileInfos[i])

\* A nil return after the second of two profile files was copied over the first:
\* both are files, both commands exited with status 0, the directory was empty.
NilAfterOverwrite ==
    /\ epc = "returned" /\ exportResult = Nil /\ Len(cpLog) = 2
    /\ cpLog[1].to = cpLog[2].to /\ cpLog[1].from # cpLog[2].from
    /\ fs = {<<cpLog[2].to, cpLog[2].from>>}

====
